---------------------------- MODULE Spec2Model ----------------------------
(***************************************************************************)
(* State-machine model of the Gemini service layer of the kids-news app    *)
(* (src/App.tsx, second half: generateKidArticle, generateImage,           *)
(* editImage, getQuickResponse).                                           *)
(*                                                                         *)
(* A JavaScript string is modelled as a sequence of lexical atoms          *)
(* (records [c, v]); JSON.parse, String.split and String.trim are          *)
(* computed over those sequences.  Every await is a point where the        *)
(* invocation is suspended: one action is the code that runs between two   *)
(* awaits.                                                                 *)
(***************************************************************************)
EXTENDS Integers, Sequences, FiniteSets, TLC

(***************************************************************************)
(* Bounds of the model.                                                    *)
(***************************************************************************)
\* Largest number of array entries / text lines of a text response.
MaxParas == 6

\* Last paragraph whose image request can resolve without any candidate.
LastEmptyResponse == 2

(***************************************************************************)
(* Program constants.                                                      *)
(***************************************************************************)
\* src/App.tsx:238 and :247 - the minimum paragraph count.
MinParagraphs == 5

\* src/App.tsx:278 - placeholder used when the image request throws.
FailurePlaceholder == "https://picsum.photos/400/400?grayscale"

\* src/App.tsx:283 - placeholder used when the response has no inline image.
MissingPlaceholder == "https://picsum.photos/400/400?blur=2"

(***************************************************************************)
(* Lexical atoms of a string.  c is the class of the atom, v its number:   *)
(*   "[" "]" "{" "}" ":" ","   JSON punctuation                            *)
(*   "nl"                      the line feed '\n'                          *)
(*   "sp"                      a blank (space, tab, carriage return)       *)
(*   "null", "num"             the JSON literals null and a number         *)
(*   "q"                       a quoted string literal; v = 0 is           *)
(*                             "paragraph", v = -1 is "title", v = k > 0   *)
(*                             is the quoted word k                        *)
(*   "w"                       the bare word k (v = 0: paragraph)          *)
(***************************************************************************)
Tok(c, v) == [c |-> c, v |-> v]
LB == Tok("[", 0)
RB == Tok("]", 0)
LC == Tok("{", 0)
RC == Tok("}", 0)
COLON == Tok(":", 0)
COMMA == Tok(",", 0)
NL == Tok("nl", 0)
SP == Tok("sp", 0)
NULLTOK == Tok("null", 0)
NUMTOK == Tok("num", 7)
Quoted(k) == Tok("q", k)
Word(k) == Tok("w", k)

\* JSON insignificant whitespace, also what String.prototype.trim removes.
IsWhitespace(t) == t.c \in {"nl", "sp"}

(***************************************************************************)
(* JavaScript values that occur: undefined, null, a number, a string (its  *)
(* atoms), an array (its items), an object (its keys and their values).    *)
(***************************************************************************)
JUndefined == [t |-> "undefined"]
JNull == [t |-> "null"]
JNum(n) == [t |-> "num", n |-> n]
JStr(s) == [t |-> "str", s |-> s]
JArr(items) == [t |-> "arr", items |-> items]
JObj(keys, vals) == [t |-> "obj", keys |-> keys, vals |-> vals]

(***************************************************************************)
(* JSON.parse over atoms: a recursive-descent parser.  Each parser takes   *)
(* the input and a position and yields [ok, val, next].                    *)
(***************************************************************************)
ParseFail == [ok |-> FALSE, val |-> JUndefined, next |-> 0]
ParseOk(v, n) == [ok |-> TRUE, val |-> v, next |-> n]

RECURSIVE SkipWs(_, _)
SkipWs(s, i) ==
  IF i <= Len(s) /\ IsWhitespace(s[i]) THEN SkipWs(s, i + 1) ELSE i

RECURSIVE ParseValue(_, _)
RECURSIVE ParseElements(_, _, _)
RECURSIVE ParseMembers(_, _, _, _)

\* elements after '[': value (',' value)* ']'
ParseElements(s, i, acc) ==
  LET r == ParseValue(s, i) IN
  IF ~r.ok THEN ParseFail
  ELSE LET j == SkipWs(s, r.next) IN
       IF j > Len(s) THEN ParseFail
       ELSE IF s[j] = RB THEN ParseOk(JArr(Append(acc, r.val)), j + 1)
       ELSE IF s[j] = COMMA THEN ParseElements(s, j + 1, Append(acc, r.val))
       ELSE ParseFail

\* members after '{': string ':' value (',' string ':' value)* '}'
ParseMembers(s, i, keys, vals) ==
  LET k == SkipWs(s, i) IN
  IF k > Len(s) \/ s[k].c # "q" THEN ParseFail
  ELSE LET c == SkipWs(s, k + 1) IN
       IF c > Len(s) \/ s[c] # COLON THEN ParseFail
       ELSE LET r == ParseValue(s, c + 1) IN
            IF ~r.ok THEN ParseFail
            ELSE LET j == SkipWs(s, r.next)
                     ks == Append(keys, s[k].v)
                     vs == Append(vals, r.val)
                 IN
                 IF j > Len(s) THEN ParseFail
                 ELSE IF s[j] = RC THEN ParseOk(JObj(ks, vs), j + 1)
                 ELSE IF s[j] = COMMA THEN ParseMembers(s, j + 1, ks, vs)
                 ELSE ParseFail

ParseValue(s, i0) ==
  LET i == SkipWs(s, i0) IN
  IF i > Len(s) THEN ParseFail
  ELSE CASE s[i].c = "null" -> ParseOk(JNull, i + 1)
         [] s[i].c = "num" -> ParseOk(JNum(s[i].v), i + 1)
         [] s[i].c = "q" -> ParseOk(JStr(<<Word(s[i].v)>>), i + 1)
         [] s[i].c = "[" ->
              LET j == SkipWs(s, i + 1) IN
              IF j <= Len(s) /\ s[j] = RB
              THEN ParseOk(JArr(<<>>), j + 1)
              ELSE ParseElements(s, i + 1, <<>>)
         [] s[i].c = "{" ->
              LET j == SkipWs(s, i + 1) IN
              IF j <= Len(s) /\ s[j] = RC
              THEN ParseOk(JObj(<<>>, <<>>), j + 1)
              ELSE ParseMembers(s, i + 1, <<>>, <<>>)
         [] OTHER -> ParseFail

\* JSON.parse(s): ok = FALSE models the SyntaxError it throws.
JSONParse(s) ==
  LET r == ParseValue(s, 1) IN
  IF r.ok /\ SkipWs(s, r.next) > Len(s) THEN r ELSE ParseFail

\* Array.isArray(v)
IsArray(v) == v.t = "arr"

(***************************************************************************)
(* String.prototype.split('\n') and String.prototype.trim.                 *)
(***************************************************************************)
\* s.indexOf('\n', from): the first line feed at or after from, 0 if none
IndexOfNL(s, from) ==
  IF \E j \in from..Len(s) : s[j] = NL
  THEN CHOOSE j \in from..Len(s) :
         s[j] = NL /\ \A m \in from..(j - 1) : s[m] # NL
  ELSE 0

RECURSIVE SplitFrom(_, _)
SplitFrom(s, from) ==
  LET j == IndexOfNL(s, from) IN
  IF j = 0 THEN <<SubSeq(s, from, Len(s))>>
  ELSE <<SubSeq(s, from, j - 1)>> \o SplitFrom(s, j + 1)

\* s.split('\n'): the pieces between line feeds, empty pieces included.
Split(s) == SplitFrom(s, 1)

RECURSIVE TrimStart(_)
TrimStart(s) ==
  IF s # <<>> /\ IsWhitespace(Head(s)) THEN TrimStart(Tail(s)) ELSE s

RECURSIVE TrimEnd(_)
TrimEnd(s) ==
  IF s # <<>> /\ IsWhitespace(s[Len(s)])
  THEN TrimEnd(SubSeq(s, 1, Len(s) - 1)) ELSE s

\* s.trim()
Trim(s) == TrimEnd(TrimStart(s))

(***************************************************************************)
(* Text responses the remote text model can return (the inputs of the      *)
(* model).  A response is a JSON array of entries in one of four line      *)
(* layouts, a JSON value that is no array, a truncated array, or plain     *)
(* text; word k stands for the text of paragraph k.                        *)
(***************************************************************************)
RECURSIVE Join(_, _)
Join(parts, sep) ==
  IF parts = <<>> THEN <<>>
  ELSE IF Len(parts) = 1 THEN parts[1]
  ELSE parts[1] \o sep \o Join(Tail(parts), sep)

\* {"paragraph":"word k"}
GoodObject(k) == <<LC, Quoted(0), COLON, Quoted(k), RC>>
\* {"title":"word k"}
OtherObject(k) == <<LC, Quoted(-1), COLON, Quoted(k), RC>>
\* the same objects spread over three lines
GoodObjectPretty(k) ==
  <<SP, LC, NL, SP, SP, Quoted(0), COLON, SP, Quoted(k), NL, SP, RC>>

EntryKinds == {"good", "null", "num", "other"}

EntryToks(kind, k) ==
  CASE kind = "good" -> GoodObject(k)
    [] kind = "null" -> <<NULLTOK>>
    [] kind = "num" -> <<NUMTOK>>
    [] kind = "other" -> OtherObject(k)

\* n well-formed entries, entry k carrying word k
GoodEntries(n) == [k \in 1..n |-> GoodObject(k)]
\* the same with entry p replaced by an entry of another kind
OddEntries(n, p, kind) == [k \in 1..n |->
  IF k = p THEN EntryToks(kind, k) ELSE GoodObject(k)]

Compact(entries) == <<LB>> \o Join(entries, <<COMMA>>) \o <<RB>>
PerLine(entries) == <<LB>> \o Join(entries, <<COMMA, NL>>) \o <<RB>>
BracketLines(entries) ==
  <<LB, NL>> \o Join(entries, <<COMMA, NL>>) \o <<NL, RB>>
Pretty(n) ==
  <<LB, NL>> \o Join([k \in 1..n |-> GoodObjectPretty(k)], <<COMMA, NL>>)
    \o <<NL, RB>>
\* an array cut off before its closing bracket
Truncated(entries) == <<LB>> \o Join(entries, <<COMMA, NL>>)

\* n lines of plain text, line k being "word k"; variants with a blank
\* line, a line of blanks, indentation and a final line feed
PlainLines(n) == Join([k \in 1..n |-> <<Word(k)>>], <<NL>>)
PlainSpaced(n) ==
  <<NL>> \o Join([k \in 1..n |-> <<SP, Word(k), SP>>], <<NL, SP, NL, NL>>)
    \o <<NL>>

\* s.split('\n').filter(line => line.trim().length > 0), src/App.tsx:245
RECURSIVE KeepNonEmpty(_)
KeepNonEmpty(ls) ==
  IF ls = <<>> THEN <<>>
  ELSE IF Len(Trim(Head(ls))) > 0
       THEN <<Head(ls)>> \o KeepNonEmpty(Tail(ls))
       ELSE KeepNonEmpty(Tail(ls))

\* Faulty variant of lines: the filter tests line.length without trimming.
RECURSIVE KeepNonZero(_)
KeepNonZero(ls) ==
  IF ls = <<>> THEN <<>>
  ELSE IF Len(Head(ls)) > 0
       THEN <<Head(ls)>> \o KeepNonZero(Tail(ls))
       ELSE KeepNonZero(Tail(ls))

linesUntrimmed(jsonString) == KeepNonZero(Split(jsonString))

\* const lines = jsonString.split('\n').filter(...), src/App.tsx:245
lines(jsonString) == KeepNonEmpty(Split(jsonString))

TextResponses ==
  LET arrays ==
        {Compact(GoodEntries(n)) : n \in 0..MaxParas}
          \cup {PerLine(GoodEntries(n)) : n \in 2..MaxParas}
          \cup {BracketLines(GoodEntries(n)) : n \in 1..MaxParas}
          \cup {Pretty(n) : n \in 1..MaxParas}
      odd ==
        {Compact(OddEntries(n, p, "null")) :
            n \in MinParagraphs..MaxParas, p \in 1..MaxParas}
          \cup {Compact(OddEntries(MinParagraphs, 2, "num")),
                Compact(OddEntries(MinParagraphs, MinParagraphs, "other")),
                Compact(OddEntries(3, 1, "null"))}
      nonArrays ==
        {<<>>, <<NULLTOK>>, <<NUMTOK>>, <<Quoted(1)>>, GoodObject(1),
         GoodObjectPretty(1), <<SP>>, <<NL, SP, NL>>}
      broken == {Truncated(GoodEntries(n)) : n \in 1..MaxParas}
      plain ==
        {PlainLines(n) : n \in 1..MaxParas}
          \cup {PlainSpaced(n) : n \in 1..MaxParas}
  IN {s \in arrays \cup odd \cup nonArrays \cup broken \cup plain :
        Len(lines(s)) <= MaxParas}

(***************************************************************************)
(* What a remote call can settle with.                                     *)
(***************************************************************************)
\* messages of the errors the remote call can throw ("" : no message)
RemoteMessages == {"Requested entity was not found.", "fetch failed", ""}

Thrown(msg) == [kind |-> "throw", message |-> msg]

\* the text call: throws, or resolves with a response whose .text is
\* undefined or a string
TextOutcomes ==
  {Thrown(m) : m \in RemoteMessages}
    \cup {[kind |-> "undefined", text |-> <<>>]}
    \cup {[kind |-> "text", text |-> s] : s \in TextResponses}

\* a part of a candidate's content: a text part or an inlineData part
TextPart == [inlineData |-> FALSE, mimeType |-> "", data |-> 0]
InlinePart(mime, d) == [inlineData |-> TRUE, mimeType |-> mime, data |-> d]

Resolved(cands) == [kind |-> "ok", candidates |-> cands]

\* the image call number k: throws, or resolves with no candidate (for the
\* paragraphs up to LastEmptyResponse), with a candidate holding only
\* text, or with a candidate holding text and two inline images (the bytes
\* of call k are numbered k and 100 + k)
ImageResolutions(k) ==
  {Resolved(<<>>) : e \in {n \in {k} : n <= LastEmptyResponse}}
    \cup {Resolved(<<[parts |-> <<TextPart>>]>>),
          Resolved(<<[parts |-> <<TextPart, InlinePart("image/png", k),
                                  InlinePart("image/jpeg", 100 + k)>>]>>)}

ImageOutcomes(k) == {Thrown("fetch failed")} \cup ImageResolutions(k)

SingleImageOutcomes ==
  {Thrown(m) : m \in RemoteMessages} \cup ImageResolutions(1)

QuickOutcomes ==
  {Thrown(m) : m \in RemoteMessages}
    \cup {[kind |-> "undefined", text |-> <<>>],
          [kind |-> "text", text |-> <<>>],
          [kind |-> "text", text |-> <<Word(1)>>]}

(***************************************************************************)
(* Pieces of the service functions.                                        *)
(***************************************************************************)
\* process.env.API_KEY: unset, the empty string, or a key
ApiKeys == {"unset", "empty", "set"}

\* Faulty variant of KeyMissing: the check is left out.
KeyCheckOmitted(key) == FALSE

\* !process.env.API_KEY, src/App.tsx:191, 312, 357, 400
KeyMissing(key) == key \in {"unset", "empty"}

\* !jsonString, src/App.tsx:231: undefined and "" are falsy
TextMissing(o) == o.kind = "undefined" \/ o.text = <<>>

\* Faulty variant of SliceTo: the slice keeps at most the minimum count,
\* lines.slice(0, 5).
SliceToMinimum(arr, end) ==
  SubSeq(arr, 1, IF MinParagraphs < Len(arr) THEN MinParagraphs ELSE Len(arr))

\* array.slice(0, end)
SliceTo(arr, end) ==
  SubSeq(arr, 1, IF end < Len(arr) THEN end ELSE Len(arr))

MathMax(a, b) == IF a > b THEN a ELSE b

\* { paragraph: line }
LineEntry(line) == JObj(<<0>>, <<JStr(line)>>)

\* The catch block, src/App.tsx:241-250: the fallback split.
FallbackParagraphs(jsonString) ==
  LET ls == lines(jsonString)
      cut == SliceTo(ls, MathMax(MinParagraphs, Len(ls)))
  IN [k \in 1..Len(cut) |-> LineEntry(cut[k])]

\* The try block, src/App.tsx:236-240: TRUE when neither JSON.parse nor
\* the check inside the try throws.
TryAccepts(jsonString) ==
  LET r == JSONParse(jsonString) IN
  r.ok /\ IsArray(r.val) /\ Len(r.val.items) >= MinParagraphs

\* src/App.tsx:235-250: paragraphsData as the code leaves it, and whether
\* the code throws out of the catch block.
ParseParagraphs(jsonString) ==
  IF TryAccepts(jsonString)
  THEN [data |-> JSONParse(jsonString).val.items, throws |-> FALSE]
  ELSE LET data == FallbackParagraphs(jsonString) IN
       [data |-> data, throws |-> Len(data) < MinParagraphs]

\* pData.paragraph throws a TypeError when pData is null or undefined
PropertyThrows(pData) == pData.t \in {"null", "undefined"}

RECURSIVE LastIndexOf(_, _)
LastIndexOf(keys, key) ==
  IF keys = <<>> THEN 0
  ELSE IF keys[Len(keys)] = key THEN Len(keys)
  ELSE LastIndexOf(SubSeq(keys, 1, Len(keys) - 1), key)

\* pData.paragraph: the property of an object, undefined for any other
\* value and for an object without the key
ParagraphOf(pData) ==
  IF pData.t = "obj" /\ LastIndexOf(pData.keys, 0) > 0
  THEN pData.vals[LastIndexOf(pData.keys, 0)]
  ELSE JUndefined

\* an image reference: a placeholder address or an inline data reference
Href(address) == [scheme |-> "https", href |-> address]
DataUrl(mime, d) == [scheme |-> "data", mimeType |-> mime, data |-> d]

RECURSIVE FindInline(_)
\* parts.find(part => part.inlineData): the first such part, or none
FindInline(parts) ==
  IF parts = <<>> THEN [found |-> FALSE, part |-> TextPart]
  ELSE IF Head(parts).inlineData THEN [found |-> TRUE, part |-> Head(parts)]
  ELSE FindInline(Tail(parts))

\* response.candidates?.[0]?.content?.parts?.find(part => part.inlineData)
imagePart(response) ==
  IF response.candidates = <<>> THEN [found |-> FALSE, part |-> TextPart]
  ELSE FindInline(response.candidates[1].parts)

\* Faulty variant of imageUrl: the catch block uses the default placeholder too.
imageUrlOnePlaceholder(outcome) ==
  IF outcome.kind = "throw" THEN Href(MissingPlaceholder)
  ELSE LET ip == imagePart(outcome) IN
       IF ip.found THEN DataUrl(ip.part.mimeType, ip.part.data)
       ELSE Href(MissingPlaceholder)

\* src/App.tsx:273-298: the image reference of one paragraph
imageUrl(outcome) ==
  IF outcome.kind = "throw" THEN Href(FailurePlaceholder)
  ELSE LET ip == imagePart(outcome) IN
       IF ip.found THEN DataUrl(ip.part.mimeType, ip.part.data)
       ELSE Href(MissingPlaceholder)

\* src/App.tsx:276-279 and 295-298: the entry pushed for one paragraph
ArticleEntry(pData, outcome) ==
  [text |-> ParagraphOf(pData), imageUrl |-> imageUrl(outcome)]

\* error.message || 'An unknown error occurred.'
MessageOr(msg, default) == IF msg = "" THEN default ELSE msg

(***************************************************************************)
(* State.  Every invocation of a service function owns its locals; the     *)
(* only thing invocations share is process.env.API_KEY.                    *)
(***************************************************************************)
\* invocation identifiers; Spec below runs invocation 1 alone
Invs == {1, 2}

Functions ==
  {"generateKidArticle", "generateImage", "editImage", "getQuickResponse"}

VARIABLES
  apiKey,              \* process.env.API_KEY
  active,              \* the invocations of this behaviour
  scope,               \* which inputs this behaviour draws from
  fn,                  \* fn[i]: the function invocation i runs
  args,                \* args[i]: the topic or prompt i was called with
  pc,                  \* pc[i]: where invocation i is suspended
  calls,               \* calls[i]: the remote requests i has issued, in order
  articleTextResponse, \* what the text call of i settled with
  paragraphsData,      \* the local paragraphsData of i
  pIndex,              \* position of the for...of iterator of i
  imageResponses,      \* what the image calls of i settled with, in order
  articleWithImages,   \* the local articleWithImages of i
  returned,            \* the value i returned
  error                \* the error i threw

\* the state of the App component, src/App.tsx:22-27, and of its environment
VARIABLES
  topic,               \* useState('')
  article,             \* useState(null)
  loading,             \* useState(false)
  appError,            \* the error state of App, useState(null)
  currentView,         \* useState(AppView.ARTICLES)
  apiKeySelected,      \* useState(false)
  aistudio,            \* window.aistudio is available
  keyCheck,            \* checkApiKeyStatus of the mount effect: pending or done
  selecting,           \* an openSelectKey() of handleSelectApiKey is pending
  handler              \* handler[i]: the UI handler awaiting invocation i

\* the state of the mounted ImageStudio, src/components/ImageStudio.tsx:14-19
VARIABLES
  generatePrompt, generatedImage, generateLoading, generateError

serviceVars ==
  <<apiKey, active, scope, fn, args, pc, calls, articleTextResponse,
    paragraphsData, pIndex, imageResponses, articleWithImages, returned, error>>

appVars ==
  <<topic, article, loading, appError, currentView, apiKeySelected, aistudio,
    keyCheck, selecting, handler>>

studioVars == <<generatePrompt, generatedImage, generateLoading, generateError>>

uiVars == <<appVars, studioVars>>

vars == <<serviceVars, uiVars>>

NoError == [name |-> "none", message |-> "", detail |-> "", raw |-> <<>>]
Err(name, message, detail, raw) ==
  [name |-> name, message |-> message, detail |-> detail, raw |-> raw]

NoValue == [t |-> "none"]
PendingText == [kind |-> "pending", text |-> <<>>]

\* a remote request: generateContent for the article text (k = 0), for the
\* image of paragraph k, or the single request of a standalone function
Request(kind, k) == [kind |-> kind, k |-> k, settled |-> FALSE]

\* the request awaited has settled
Settle(log) == [log EXCEPT ![Len(log)].settled = TRUE]

Outstanding(i) == {n \in 1..Len(calls[i]) : ~calls[i][n].settled}
TextCalls(i) == {n \in 1..Len(calls[i]) : calls[i][n].kind = "text"}
ImageCalls(i) == {n \in 1..Len(calls[i]) : calls[i][n].kind = "image"}

\* the inputs a behaviour draws from: every response with one topic, a few
\* responses with every topic, a few responses with one topic for two
\* invocations, or a few responses for the UI
Scopes == {"responses", "topics", "pair", "ui"}

\* topics and prompts: empty, blank, and one with text
Topics == {<<>>, <<SP>>, <<Word(1)>>}

TopicChoices ==
  IF scope \in {"responses", "pair"} THEN {<<Word(1)>>} ELSE Topics

\* the text outcomes of the smaller scopes: a throw, a valid array of the
\* minimum length, five spaced plain lines and two plain lines
FewTextOutcomes ==
  {Thrown("Requested entity was not found."),
   [kind |-> "text", text |-> Compact(GoodEntries(MinParagraphs))],
   [kind |-> "text", text |-> PlainSpaced(MinParagraphs)],
   [kind |-> "text", text |-> PlainLines(2)]}

TextChoices ==
  CASE scope = "responses" -> TextOutcomes
    [] scope \in {"topics", "pair"} -> FewTextOutcomes
    [] scope = "ui" ->
         FewTextOutcomes \ {[kind |-> "text", text |-> PlainSpaced(MinParagraphs)]}

\* the image outcomes of the smaller scopes: a throw or an inline image
\* (the bytes of call k of invocation i are numbered 10 * i + k)
FewImageOutcomes(i, k) ==
  {Thrown("fetch failed"),
   Resolved(<<[parts |-> <<TextPart, InlinePart("image/png", 10 * i + k)>>]>>)}

ImageChoices(i, k) ==
  CASE scope = "responses" -> ImageOutcomes(k)
    [] scope \in {"topics", "pair"} -> FewImageOutcomes(i, k)
    [] scope = "ui" -> IF k = 1 THEN FewImageOutcomes(i, k)
                       ELSE FewImageOutcomes(i, k) \ {Thrown("fetch failed")}

\* the outcomes of the single image request: for the UI two throws, a
\* response holding text alone and one holding an image
SingleImageChoices ==
  IF scope = "ui"
  THEN {Thrown("Requested entity was not found."), Thrown(""),
        Resolved(<<[parts |-> <<TextPart>>]>>),
        Resolved(<<[parts |-> <<TextPart, InlinePart("image/png", 1)>>]>>)}
  ELSE SingleImageOutcomes

\* the invocations start idle
ServiceInit ==
  /\ fn = [i \in Invs |-> "none"]
  /\ args = [i \in Invs |-> <<>>]
  /\ pc = [i \in Invs |-> "idle"]
  /\ calls = [i \in Invs |-> <<>>]
  /\ articleTextResponse = [i \in Invs |-> PendingText]
  /\ paragraphsData = [i \in Invs |-> <<>>]
  /\ pIndex = [i \in Invs |-> 0]
  /\ imageResponses = [i \in Invs |-> <<>>]
  /\ articleWithImages = [i \in Invs |-> <<>>]
  /\ returned = [i \in Invs |-> NoValue]
  /\ error = [i \in Invs |-> NoError]

\* src/App.tsx:22-27 and src/components/ImageStudio.tsx:14-19
UIInit ==
  /\ topic = <<>>
  /\ article = JNull
  /\ loading = FALSE
  /\ appError = JNull
  /\ currentView = "ARTICLES"
  /\ apiKeySelected = FALSE
  /\ keyCheck = "pending"
  /\ selecting = FALSE
  /\ handler = [i \in Invs |-> "none"]
  /\ generatePrompt = <<>>
  /\ generatedImage = JNull
  /\ generateLoading = FALSE
  /\ generateError = JNull

Init ==
  /\ apiKey \in ApiKeys
  /\ active = {1}
  /\ scope = "responses"
  /\ aistudio = TRUE
  /\ ServiceInit
  /\ UIInit

(***************************************************************************)
(* Steps shared by the actions.                                            *)
(***************************************************************************)
\* throw new Error(...): the invocation rejects
Throw(i, e) ==
  /\ pc' = [pc EXCEPT ![i] = "failed"]
  /\ error' = [error EXCEPT ![i] = e]

\* src/App.tsx:191-193, 312-314, 357-359, 400-402
ConfigurationError ==
  Err("Error",
      "API_KEY environment variable is not set. Please configure your API key.",
      "", <<>>)

\* Faulty variant of Issue: the image request of the next paragraph is issued
\* together with the one awaited.
IssueAhead(log, kind, k) ==
  IF kind = "image"
  THEN Append(Append(log, Request(kind, k)), Request(kind, k + 1))
  ELSE Append(log, Request(kind, k))

\* ai.models.generateContent(...): one more request is in flight
Issue(log, kind, k) == Append(log, Request(kind, k))

\* Faulty variant of PushEntry: the catch block of the image call continues
\* without pushing an entry.
PushEntryUnlessThrown(acc, pData, outcome) ==
  IF outcome.kind = "throw" THEN acc
  ELSE Append(acc, ArticleEntry(pData, outcome))

\* Faulty variant of PushEntry: unshift instead of push.
PushEntryFront(acc, pData, outcome) == <<ArticleEntry(pData, outcome)>> \o acc

\* articleWithImages.push({text, imageUrl}), src/App.tsx:276 and 295
PushEntry(acc, pData, outcome) == Append(acc, ArticleEntry(pData, outcome))

\* Faulty variant of Local: the array is declared at module level, one for
\* all invocations.
Shared(all, i, v) == [j \in Invs |-> v]

\* const articleWithImages = [] is a local of the invocation,
\* src/App.tsx:253: what invocation i stores, no other invocation sees
Local(all, i, v) == [all EXCEPT ![i] = v]

\* The head of the for...of loop, src/App.tsx:255-260, entered with the
\* iterator at paragraph k, the request log and the entries so far: the
\* loop ends and the function returns, or the template literal of line 256
\* throws, or the image request of paragraph k is issued.
LoopHead(i, data, k, log, acc) ==
  /\ articleWithImages' = Local(articleWithImages, i, acc)
  /\ IF k > Len(data)
     THEN /\ pc' = [pc EXCEPT ![i] = "returned"]
          /\ returned' = [returned EXCEPT ![i] = [t |-> "article", v |-> acc]]
          /\ calls' = [calls EXCEPT ![i] = log]
          /\ UNCHANGED <<pIndex, error>>
     ELSE IF PropertyThrows(data[k])
     THEN /\ Throw(i, Err("TypeError",
                          "Cannot read properties of null (reading 'paragraph')",
                          "", <<>>))
          /\ calls' = [calls EXCEPT ![i] = log]
          /\ pIndex' = [pIndex EXCEPT ![i] = k]
          /\ UNCHANGED returned
     ELSE /\ pc' = [pc EXCEPT ![i] = "awaitImage"]
          /\ calls' = [calls EXCEPT ![i] = Issue(log, "image", k)]
          /\ pIndex' = [pIndex EXCEPT ![i] = k]
          /\ UNCHANGED <<returned, error>>

(***************************************************************************)
(* generateKidArticle, src/App.tsx:190-302.                                *)
(***************************************************************************)
\* generateKidArticle(t) up to the first await, src/App.tsx:190-204.
StartArticle(i, t) ==
  /\ pc[i] = "idle"
  /\ fn' = [fn EXCEPT ![i] = "generateKidArticle"]
  /\ args' = [args EXCEPT ![i] = t]
  /\ IF KeyMissing(apiKey)
     THEN /\ Throw(i, ConfigurationError)
          /\ UNCHANGED calls
     ELSE /\ pc' = [pc EXCEPT ![i] = "awaitText"]
          /\ calls' = [calls EXCEPT ![i] = Issue(calls[i], "text", 0)]
          /\ UNCHANGED error
  /\ UNCHANGED <<apiKey, active, scope, articleTextResponse, paragraphsData,
                 pIndex, imageResponses, articleWithImages, returned>>

\* a caller other than the UI calls generateKidArticle
CallArticle(i) ==
  /\ \E t \in TopicChoices : StartArticle(i, t)
  /\ UNCHANGED uiVars

\* Faulty variant of TextThrew: a failed text request is issued once more.
TextThrewRetry(i, o) ==
  IF Len(calls[i]) < 2
  THEN /\ calls' = [calls EXCEPT ![i] = Issue(Settle(calls[i]), "text", 0)]
       /\ UNCHANGED <<pc, error, paragraphsData, pIndex, articleWithImages,
                      returned>>
  ELSE /\ Throw(i, Err("Error", "Could not generate article text.",
                       o.message, <<>>))
       /\ calls' = [calls EXCEPT ![i] = Settle(calls[i])]
       /\ UNCHANGED <<paragraphsData, pIndex, articleWithImages, returned>>

\* The catch of the text call, src/App.tsx:225-228.
TextThrew(i, o) ==
  /\ Throw(i, Err("Error",
                  "Could not generate article text. Please try a different topic.",
                  MessageOr(o.message, "Error"), <<>>))
  /\ calls' = [calls EXCEPT ![i] = Settle(calls[i])]
  /\ UNCHANGED <<paragraphsData, pIndex, articleWithImages, returned>>

\* The text call resolved, src/App.tsx:230-260.
TextResolved(i, o) ==
  IF TextMissing(o)
  THEN /\ Throw(i, Err("Error", "Failed to get article text from Gemini API.",
                       "", <<>>))
       /\ calls' = [calls EXCEPT ![i] = Settle(calls[i])]
       /\ UNCHANGED <<paragraphsData, pIndex, articleWithImages, returned>>
  ELSE LET pp == ParseParagraphs(o.text) IN
       /\ paragraphsData' = [paragraphsData EXCEPT ![i] = pp.data]
       /\ IF pp.throws
          THEN /\ Throw(i, Err("Error",
                      "Failed to parse article text or generate enough paragraphs. Raw response:",
                      "", o.text))
               /\ calls' = [calls EXCEPT ![i] = Settle(calls[i])]
               /\ UNCHANGED <<pIndex, articleWithImages, returned>>
          ELSE LoopHead(i, pp.data, 1, Settle(calls[i]), <<>>)

\* The text request settles.
TextSettles(i) ==
  /\ pc[i] = "awaitText"
  /\ \E o \in TextChoices :
       /\ articleTextResponse' = [articleTextResponse EXCEPT ![i] = o]
       /\ IF o.kind = "throw" THEN TextThrew(i, o) ELSE TextResolved(i, o)
  /\ UNCHANGED <<apiKey, active, scope, fn, args, imageResponses>>
  /\ UNCHANGED uiVars

\* Faulty variant of ImageSettles: an image request that threw is issued
\* once more.
ImageSettlesRetry(i) ==
  /\ pc[i] = "awaitImage"
  /\ \E o \in ImageChoices(i, pIndex[i]) :
       IF o.kind = "throw" /\ calls[i][Len(calls[i]) - 1].k # pIndex[i]
       THEN /\ calls' = [calls EXCEPT ![i] =
                          Issue(Settle(calls[i]), "image", pIndex[i])]
            /\ UNCHANGED <<pc, pIndex, imageResponses, articleWithImages,
                           returned, error>>
       ELSE /\ imageResponses' = [imageResponses EXCEPT ![i] = Append(@, o)]
            /\ LoopHead(i, paragraphsData[i], pIndex[i] + 1, Settle(calls[i]),
                        PushEntry(articleWithImages[i],
                                  paragraphsData[i][pIndex[i]], o))
  /\ UNCHANGED <<apiKey, active, scope, fn, args, articleTextResponse,
                 paragraphsData>>
  /\ UNCHANGED uiVars

\* The image request of paragraph pIndex settles, src/App.tsx:273-299, and
\* the loop goes on to its next iteration.
ImageSettles(i) ==
  /\ pc[i] = "awaitImage"
  /\ \E o \in ImageChoices(i, pIndex[i]) :
       /\ imageResponses' = [imageResponses EXCEPT ![i] = Append(@, o)]
       /\ LoopHead(i, paragraphsData[i], pIndex[i] + 1, Settle(calls[i]),
                   PushEntry(articleWithImages[i],
                             paragraphsData[i][pIndex[i]], o))
  /\ UNCHANGED <<apiKey, active, scope, fn, args, articleTextResponse,
                 paragraphsData>>
  /\ UNCHANGED uiVars

(***************************************************************************)
(* generateImage (src/App.tsx:311-347), editImage (356-392) and            *)
(* getQuickResponse (399-420): one request each.                           *)
(***************************************************************************)
SingleFunctions == Functions \ {"generateKidArticle"}

RequestKind(f) ==
  CASE f = "generateImage" -> "generate"
    [] f = "editImage" -> "edit"
    [] f = "getQuickResponse" -> "quick"

\* f(a) up to the await, src/App.tsx:311-320, 356-363, 399-406.
StartSingle(i, f, a) ==
  /\ pc[i] = "idle"
  /\ fn' = [fn EXCEPT ![i] = f]
  /\ args' = [args EXCEPT ![i] = a]
  /\ IF KeyMissing(apiKey)
     THEN /\ Throw(i, ConfigurationError)
          /\ UNCHANGED calls
     ELSE /\ pc' = [pc EXCEPT ![i] = "awaitSingle"]
          /\ calls' = [calls EXCEPT ![i] = Issue(calls[i], RequestKind(f), 0)]
          /\ UNCHANGED error
  /\ UNCHANGED <<apiKey, active, scope, articleTextResponse, paragraphsData,
                 pIndex, imageResponses, articleWithImages, returned>>

\* a caller other than the UI calls f
CallSingle(i, f) ==
  /\ \E a \in TopicChoices : StartSingle(i, f, a)
  /\ UNCHANGED uiVars

\* the prefix of the error the catch block of f throws
FailurePrefix(f) ==
  CASE f = "generateImage" -> "Failed to generate image:"
    [] f = "editImage" -> "Failed to edit image:"
    [] f = "getQuickResponse" -> "Failed to get quick response:"

\* the error thrown inside the try block when no image part is found
NoImageMessage(f) ==
  IF f = "generateImage" THEN "No image data found in the response."
  ELSE "No edited image data found in the response."

\* The catch block, src/App.tsx:343-346, 388-391, 416-419.
CatchSingle(i, msg) ==
  Throw(i, Err("Error", FailurePrefix(fn[i]),
               MessageOr(msg, "An unknown error occurred."), <<>>))

\* Faulty variant of QuickText: the response text is returned as it is.
QuickTextRaw(o) == o.text

\* return response.text || '...', src/App.tsx:415
QuickFallback == <<Word(0), Word(0)>>
QuickText(o) == IF TextMissing(o) THEN QuickFallback ELSE o.text

\* Faulty variant of ImageResolved: a response without image part gives the
\* placeholder of the article loop.
ImageResolvedPlaceholder(i, o) ==
  /\ pc' = [pc EXCEPT ![i] = "returned"]
  /\ returned' = [returned EXCEPT ![i] = [t |-> "url", v |-> imageUrl(o)]]
  /\ UNCHANGED error

\* The body of the try block after the await of generateImage and
\* editImage, src/App.tsx:335-342 and 380-387.
ImageResolved(i, o) ==
  LET ip == imagePart(o) IN
  IF ip.found
  THEN /\ pc' = [pc EXCEPT ![i] = "returned"]
       /\ returned' = [returned EXCEPT ![i] =
            [t |-> "url", v |-> DataUrl(ip.part.mimeType, ip.part.data)]]
       /\ UNCHANGED error
  ELSE /\ CatchSingle(i, NoImageMessage(fn[i]))
       /\ UNCHANGED returned

\* The single request of generateImage or editImage settles.
SingleImageSettles(i) ==
  /\ pc[i] = "awaitSingle"
  /\ fn[i] \in {"generateImage", "editImage"}
  /\ calls' = [calls EXCEPT ![i] = Settle(calls[i])]
  /\ \E o \in SingleImageChoices :
       /\ imageResponses' = [imageResponses EXCEPT ![i] = Append(@, o)]
       /\ IF o.kind = "throw"
          THEN CatchSingle(i, o.message) /\ UNCHANGED returned
          ELSE ImageResolved(i, o)
  /\ UNCHANGED <<apiKey, active, scope, fn, args, articleTextResponse,
                 paragraphsData, pIndex, articleWithImages>>
  /\ UNCHANGED uiVars

\* The request of getQuickResponse settles, src/App.tsx:415-419.
QuickSettles(i) ==
  /\ pc[i] = "awaitSingle"
  /\ fn[i] = "getQuickResponse"
  /\ calls' = [calls EXCEPT ![i] = Settle(calls[i])]
  /\ \E o \in QuickOutcomes :
       /\ articleTextResponse' = [articleTextResponse EXCEPT ![i] = o]
       /\ IF o.kind = "throw"
          THEN CatchSingle(i, o.message) /\ UNCHANGED returned
          ELSE /\ pc' = [pc EXCEPT ![i] = "returned"]
               /\ returned' = [returned EXCEPT ![i] =
                    [t |-> "text", v |-> QuickText(o)]]
               /\ UNCHANGED error
  /\ UNCHANGED <<apiKey, active, scope, fn, args, paragraphsData, pIndex,
                 imageResponses, articleWithImages>>
  /\ UNCHANGED uiVars

(***************************************************************************)
(* One invocation of one service function, under any configuration.        *)
(***************************************************************************)
Next ==
  \/ \E i \in active : CallArticle(i)
  \/ \E i \in active : TextSettles(i)
  \/ \E i \in active : ImageSettles(i)
  \/ \E i \in active : \E f \in SingleFunctions : CallSingle(i, f)
  \/ \E i \in active : SingleImageSettles(i)
  \/ \E i \in active : QuickSettles(i)

Spec == Init /\ [][Next]_vars

(***************************************************************************)
(* Vocabulary of the properties.  The lines of a raw response are          *)
(* described here by the positions of its line feeds, independently of     *)
(* Split and Trim above.                                                   *)
(***************************************************************************)
IsArticle(i) == fn[i] = "generateKidArticle"

\* the text of the response of invocation i, when its text call resolved
RawText(i) == articleTextResponse[i].text
GotText(i) ==
  articleTextResponse[i].kind = "text" /\ articleTextResponse[i].text # <<>>

LineBreaks(raw) == {0, Len(raw) + 1} \cup {j \in 1..Len(raw) : raw[j].c = "nl"}

\* The lines of raw that hold something else than blanks, in their order,
\* each as it stands in raw.  <<a, b>> is a line when a and b are
\* consecutive breaks.
RawLines(raw) ==
  LET breaks == LineBreaks(raw)
      segments == {sg \in breaks \X breaks :
                     /\ sg[1] < sg[2]
                     /\ \A c \in breaks : ~(sg[1] < c /\ c < sg[2])}
      nonBlank == {sg \in segments :
                     \E j \in (sg[1] + 1)..(sg[2] - 1) :
                        raw[j].c \notin {"nl", "sp"}}
      kth(k) == CHOOSE x \in nonBlank :
                  Cardinality({y \in nonBlank : y[1] < x[1]}) = k - 1
  IN [k \in 1..Cardinality(nonBlank) |->
        SubSeq(raw, kth(k)[1] + 1, kth(k)[2] - 1)]

\* the paragraph property of a parsed array entry
EntryText(e) ==
  IF e.t = "obj" /\ \E n \in 1..Len(e.keys) : e.keys[n] = 0
  THEN e.vals[CHOOSE n \in 1..Len(e.keys) :
                /\ e.keys[n] = 0
                /\ \A m \in (n + 1)..Len(e.keys) : e.keys[m] # 0]
  ELSE [t |-> "undefined"]

\* the response is a JSON array
ParsesAsArray(raw) ==
  LET parsed == JSONParse(raw) IN parsed.ok /\ parsed.val.t = "arr"

\* The texts of the paragraphs the text response holds: those of the
\* entries of the array when it is an array of the minimum length, else
\* its non-blank lines.
ParagraphTexts(raw) ==
  LET parsed == JSONParse(raw) IN
  IF parsed.ok /\ parsed.val.t = "arr"
       /\ Len(parsed.val.items) >= MinParagraphs
  THEN [k \in 1..Len(parsed.val.items) |-> EntryText(parsed.val.items[k])]
  ELSE LET ls == RawLines(raw) IN
       [k \in 1..Len(ls) |-> [t |-> "str", s |-> ls[k]]]

ParagraphCount(raw) == Len(ParagraphTexts(raw))

(***************************************************************************)
(* C1.  A text response that parses as a JSON array of fewer than 5        *)
(* entries, whatever its line layout, makes generateKidArticle fail        *)
(* without any image request.  (The code does not satisfy this: the check  *)
(* of line 238 throws inside the try, so the catch block re-reads the      *)
(* response line by line.)                                                 *)
(***************************************************************************)
C1_ShortArrayFails ==
  \A i \in active :
    (IsArticle(i) /\ GotText(i)
       /\ LET parsed == JSONParse(RawText(i)) IN
            /\ parsed.ok /\ parsed.val.t = "arr"
            /\ Len(parsed.val.items) < MinParagraphs)
    => (pc[i] = "failed" /\ ImageCalls(i) = {})

(***************************************************************************)
(* C2.  Whenever generateKidArticle returns, the list returned has as      *)
(* many entries as the text response has paragraphs (array entries, or     *)
(* non-blank lines on the fallback path), and at least 5.                  *)
(***************************************************************************)
C2_ResultLength ==
  \A i \in active :
    (IsArticle(i) /\ pc[i] = "returned")
    => /\ GotText(i)
       /\ Len(returned[i].v) = ParagraphCount(RawText(i))
       /\ Len(returned[i].v) = Len(paragraphsData[i])
       /\ Len(returned[i].v) >= MinParagraphs

\* a run returned more than 5 entries from the lines of a response that
\* is no JSON
C2_Witness ==
  \E i \in active :
    /\ IsArticle(i) /\ pc[i] = "returned"
    /\ ~JSONParse(RawText(i)).ok
    /\ Len(returned[i].v) > MinParagraphs

(***************************************************************************)
(* Image responses, described without the operators of the model.          *)
(***************************************************************************)
\* the inline parts of the response: <<candidate, part>> positions
InlineParts(o) ==
  {cp \in (1..Len(o.candidates)) \X (1..3) :
     /\ cp[2] <= Len(o.candidates[cp[1]].parts)
     /\ o.candidates[cp[1]].parts[cp[2]].inlineData}

\* the request resolved with an inline image in its first candidate
HasPayload(o) == o.kind = "ok" /\ \E cp \in InlineParts(o) : cp[1] = 1

\* the request resolved and no part of the response is an inline image
NoPayload(o) == o.kind = "ok" /\ InlineParts(o) = {}

\* the inline data reference built from the response: type and bytes of
\* the first inline part of the first candidate
OwnDataReference(o) ==
  LET p == CHOOSE p \in 1..3 :
             /\ <<1, p>> \in InlineParts(o)
             /\ \A q \in 1..(p - 1) : <<1, q>> \notin InlineParts(o)
      part == o.candidates[1].parts[p]
  IN [scheme |-> "data", mimeType |-> part.mimeType, data |-> part.data]

\* every paragraph of invocation i got its image request settled
AllImagesSettled(i) ==
  /\ Len(paragraphsData[i]) >= MinParagraphs
  /\ Len(imageResponses[i]) = Len(paragraphsData[i])

(***************************************************************************)
(* C3.  When the image request of paragraph k throws and those of all      *)
(* other paragraphs resolve with a payload, generateKidArticle returns a   *)
(* list of the full paragraph count: entry k carries the failure           *)
(* placeholder, every other entry the inline data reference built from     *)
(* its own response.                                                       *)
(***************************************************************************)
C3_OneFailureKeepsOthers ==
  \A i \in active : \A k \in 1..Len(paragraphsData[i]) :
    (/\ IsArticle(i) /\ AllImagesSettled(i)
     /\ imageResponses[i][k].kind = "throw"
     /\ \A j \in 1..Len(paragraphsData[i]) :
          j # k => HasPayload(imageResponses[i][j]))
    => /\ pc[i] = "returned"
       /\ Len(returned[i].v) = Len(paragraphsData[i])
       /\ returned[i].v[k].imageUrl =
            [scheme |-> "https",
             href |-> "https://picsum.photos/400/400?grayscale"]
       /\ \A j \in 1..Len(paragraphsData[i]) :
            j # k => returned[i].v[j].imageUrl =
                       OwnDataReference(imageResponses[i][j])

\* a run in which exactly the request of the third paragraph threw
C3_Witness ==
  \E i \in active :
    /\ IsArticle(i) /\ AllImagesSettled(i) /\ pc[i] = "returned"
    /\ imageResponses[i][3].kind = "throw"
    /\ \A j \in 1..Len(paragraphsData[i]) :
         j # 3 => HasPayload(imageResponses[i][j])

(***************************************************************************)
(* C4.  An image request that resolves without any inline image part       *)
(* gives its paragraph the missing-payload placeholder, and no request     *)
(* that threw gave its paragraph the same reference.                       *)
(***************************************************************************)
C4_MissingPayloadPlaceholder ==
  \A i \in active : \A k \in 1..Len(articleWithImages[i]) :
    (IsArticle(i) /\ k <= Len(imageResponses[i])
       /\ NoPayload(imageResponses[i][k]))
    => /\ articleWithImages[i][k].imageUrl =
            [scheme |-> "https",
             href |-> "https://picsum.photos/400/400?blur=2"]
       /\ \A j \in 1..Len(articleWithImages[i]) :
            (j <= Len(imageResponses[i])
               /\ imageResponses[i][j].kind = "throw")
            => articleWithImages[i][j].imageUrl
                 # articleWithImages[i][k].imageUrl

\* a returned article in which one request threw, one resolved without
\* candidate and one with a candidate holding only text
C4_Witness ==
  \E i \in active :
    /\ IsArticle(i) /\ pc[i] = "returned"
    /\ \E k, m, j \in 1..Len(imageResponses[i]) :
         /\ NoPayload(imageResponses[i][k])
         /\ imageResponses[i][k].candidates = <<>>
         /\ NoPayload(imageResponses[i][m])
         /\ imageResponses[i][m].candidates # <<>>
         /\ imageResponses[i][j].kind = "throw"

(***************************************************************************)
(* C5.  With no credential configured, each of the four service functions  *)
(* fails at once with the configuration error and issues no request.       *)
(***************************************************************************)
C5_NoKeyNoRequest ==
  \A i \in active :
    (apiKey \in {"unset", "empty"} /\ fn[i] \in Functions)
    => /\ pc[i] = "failed"
       /\ error[i].message =
            "API_KEY environment variable is not set. Please configure your API key."
       /\ calls[i] = <<>>

\* editImage was called without a key
C5_Witness ==
  \E i \in active :
    apiKey = "unset" /\ fn[i] = "editImage" /\ pc[i] = "failed"

(***************************************************************************)
(* C6.  Entry k of a returned article carries the text of paragraph k of   *)
(* the text response: nothing is reordered, dropped, duplicated or mixed,  *)
(* whatever the image requests settled with.                               *)
(***************************************************************************)
C6_TextOrder ==
  \A i \in active :
    (IsArticle(i) /\ pc[i] = "returned")
    => [k \in 1..Len(returned[i].v) |-> returned[i].v[k].text]
         = ParagraphTexts(RawText(i))

\* a returned article whose image requests threw, lacked a payload and
\* carried one
C6_Witness ==
  \E i \in active :
    /\ IsArticle(i) /\ pc[i] = "returned"
    /\ \E a, b, c \in 1..Len(imageResponses[i]) :
         /\ imageResponses[i][a].kind = "throw"
         /\ NoPayload(imageResponses[i][b])
         /\ HasPayload(imageResponses[i][c])
    /\ \E k \in 1..Len(returned[i].v) :
         returned[i].v[k].text = [t |-> "str", s |-> <<Word(k)>>]

(***************************************************************************)
(* C7.  Within one generateKidArticle invocation at most one remote        *)
(* request is outstanding; an image request is issued only after the text  *)
(* request resolved and after the image requests of all earlier            *)
(* paragraphs settled, paragraph by paragraph.                             *)
(***************************************************************************)
C7_Sequential ==
  \A i \in active :
    IsArticle(i)
    => /\ Cardinality(Outstanding(i)) <= 1
       /\ \A n \in 1..Len(calls[i]) :
            calls[i][n].kind = "image"
            => /\ articleTextResponse[i].kind = "text"
               /\ calls[i][1].kind = "text"
               /\ \A m \in 1..(n - 1) : calls[i][m].settled
               /\ calls[i][n].k = n - 1
               /\ Len(imageResponses[i]) >= n - 2

\* the image request of the second paragraph is in flight
C7_Witness ==
  \E i \in active :
    /\ IsArticle(i) /\ pc[i] = "awaitImage"
    /\ Len(calls[i]) = 3
    /\ ~calls[i][3].settled
    /\ calls[i][2].settled

\* the text call threw, or resolved with no text or the empty text
TextFailed(i) ==
  \/ articleTextResponse[i].kind \in {"throw", "undefined"}
  \/ articleTextResponse[i].kind = "text" /\ articleTextResponse[i].text = <<>>

(***************************************************************************)
(* C8.  When the text request throws or resolves with empty text,          *)
(* generateKidArticle fails; exactly one text request was issued and no    *)
(* image request.                                                          *)
(***************************************************************************)
C8_TextFailureFatal ==
  \A i \in active :
    (IsArticle(i) /\ TextFailed(i))
    => /\ pc[i] = "failed"
       /\ error[i].name = "Error"
       /\ Cardinality(TextCalls(i)) = 1
       /\ ImageCalls(i) = {}
       /\ Outstanding(i) = {}

\* the text request threw
C8_Witness ==
  \E i \in active :
    /\ IsArticle(i) /\ articleTextResponse[i].kind = "throw"
    /\ pc[i] = "failed"
    /\ error[i].detail = "fetch failed"

(***************************************************************************)
(* C9.  When the text response is no JSON array, the paragraph list is     *)
(* the sequence of the lines of the raw response that are not blank, in    *)
(* order and one paragraph per line, and the call fails, without any       *)
(* image request, exactly when there are fewer than 5 such lines.          *)
(***************************************************************************)
C9_FallbackLines ==
  \A i \in active :
    (IsArticle(i) /\ GotText(i) /\ ~ParsesAsArray(RawText(i)))
    => LET ls == RawLines(RawText(i)) IN
       /\ paragraphsData[i] =
            [k \in 1..Len(ls) |->
               [t |-> "obj", keys |-> <<0>>,
                vals |-> <<[t |-> "str", s |-> ls[k]]>>]]
       /\ pc[i] = "failed" <=> Len(ls) < MinParagraphs
       /\ pc[i] = "failed" => ImageCalls(i) = {}

\* plain text with blank lines between its lines went through the image
\* phase
C9_Witness ==
  \E i \in active :
    /\ IsArticle(i) /\ GotText(i) /\ ~JSONParse(RawText(i)).ok
    /\ pc[i] = "returned"
    /\ Cardinality(LineBreaks(RawText(i))) - 1 > Len(paragraphsData[i])

(***************************************************************************)
(* C10.  Once the paragraph list has passed validation (at least 5         *)
(* entries), generateKidArticle never fails.  (The code does not satisfy   *)
(* this: a null entry of a validated array makes the template literal of   *)
(* line 256 throw a TypeError outside every try block.)                    *)
(***************************************************************************)
C10_ValidatedNeverFails ==
  \A i \in active :
    (IsArticle(i) /\ Len(paragraphsData[i]) >= MinParagraphs)
    => pc[i] # "failed"

(***************************************************************************)
(* C13.  With a credential, getQuickResponse issues exactly one request;   *)
(* it returns the response text when that is non-empty and the fixed       *)
(* fallback string when the response has no text or an empty one, so it    *)
(* never returns the empty string; when the request throws it fails with   *)
(* an error that carries the message of the error caught.                  *)
(***************************************************************************)
C13_QuickResponse ==
  \A i \in active :
    fn[i] = "getQuickResponse"
    => /\ Len(calls[i]) <= 1
       /\ pc[i] = "returned" => returned[i].v # <<>>
       /\ articleTextResponse[i].kind # "pending"
            => LET o == articleTextResponse[i] IN
               /\ Len(calls[i]) = 1 /\ calls[i][1].settled
               /\ (o.kind = "text" /\ o.text # <<>>)
                    => (pc[i] = "returned" /\ returned[i].v = o.text)
               /\ (o.kind = "undefined" \/ (o.kind = "text" /\ o.text = <<>>))
                    => (pc[i] = "returned" /\ returned[i].v = QuickFallback)
               /\ o.kind = "throw"
                    => /\ pc[i] = "failed"
                       /\ error[i].message = "Failed to get quick response:"
                       /\ o.message # "" => error[i].detail = o.message

\* the request resolved with the empty text and the fallback was returned
C13_Witness ==
  \E i \in active :
    /\ fn[i] = "getQuickResponse" /\ pc[i] = "returned"
    /\ articleTextResponse[i].kind = "text"
    /\ articleTextResponse[i].text = <<>>

(***************************************************************************)
(* C14.  With a credential, generateImage and editImage issue a single     *)
(* request and never substitute a placeholder: they return exactly when    *)
(* the response holds an inline image part, and then the inline data       *)
(* reference built from it; they fail with an error when the request       *)
(* throws and when the response has no image part.                         *)
(***************************************************************************)
C14_NoPlaceholder ==
  \A i \in active :
    fn[i] \in {"generateImage", "editImage"}
    => /\ Len(calls[i]) <= 1
       /\ pc[i] = "returned" => imageResponses[i] # <<>>
       /\ imageResponses[i] # <<>>
            => LET o == imageResponses[i][1] IN
               /\ Len(calls[i]) = 1 /\ calls[i][1].settled
               /\ HasPayload(o)
                    => /\ pc[i] = "returned"
                       /\ returned[i].v = OwnDataReference(o)
               /\ (o.kind = "throw" \/ ~HasPayload(o))
                    => /\ pc[i] = "failed"
                       /\ error[i].name = "Error"
                       /\ returned[i] = NoValue

\* editImage failed on a response whose only candidate holds text alone
C14_Witness ==
  \E i \in active :
    /\ fn[i] = "editImage" /\ pc[i] = "failed"
    /\ imageResponses[i] # <<>>
    /\ NoPayload(imageResponses[i][1])
    /\ imageResponses[i][1].candidates # <<>>

\* the requests of invocation i for the image of paragraph k
ImageCallsOf(i, k) == {n \in ImageCalls(i) : calls[i][n].k = k}

(***************************************************************************)
(* C15.  A generateKidArticle invocation never issues a second text        *)
(* request nor a second image request for a paragraph, whatever the        *)
(* first settled with; when it returns on a text response of n             *)
(* paragraphs it has issued exactly one text request and exactly n image   *)
(* requests, one per paragraph.                                            *)
(***************************************************************************)
C15_RequestCount ==
  \A i \in active :
    IsArticle(i)
    => /\ Cardinality(TextCalls(i)) <= 1
       /\ \A k \in 1..Len(paragraphsData[i]) :
            Cardinality(ImageCallsOf(i, k)) <= 1
       /\ pc[i] = "returned"
            => LET n == ParagraphCount(RawText(i)) IN
               /\ Cardinality(TextCalls(i)) = 1
               /\ Cardinality(ImageCalls(i)) = n
               /\ Len(calls[i]) = n + 1
               /\ \A k \in 1..n : Cardinality(ImageCallsOf(i, k)) = 1

\* a run returned six entries, one image request having thrown and
\* another having resolved without image part
C15_Witness ==
  \E i \in active :
    /\ IsArticle(i) /\ pc[i] = "returned"
    /\ Len(returned[i].v) = MinParagraphs + 1
    /\ \E k, m \in 1..Len(imageResponses[i]) :
         /\ imageResponses[i][k].kind = "throw"
         /\ NoPayload(imageResponses[i][m])

(***************************************************************************)
(* One invocation of one service function, called with any topic or        *)
(* prompt, under any configuration.                                        *)
(***************************************************************************)
InitTopics ==
  /\ apiKey \in ApiKeys
  /\ active = {1}
  /\ scope = "topics"
  /\ aistudio = TRUE
  /\ ServiceInit
  /\ UIInit

SpecTopics == InitTopics /\ [][Next]_vars

\* the string holds nothing but white space
Blank(str) == \A j \in 1..Len(str) : str[j].c \in {"sp", "nl"}

(***************************************************************************)
(* C11.  generateKidArticle called with a topic that is empty after        *)
(* trimming fails with an error and issues no remote request, neither the  *)
(* text request nor an image request.  (The code does not satisfy this:    *)
(* generateKidArticle never looks at its topic; only its caller            *)
(* handleGenerateArticle does.)                                            *)
(***************************************************************************)
C11_BlankTopicRejected ==
  \A i \in active :
    (IsArticle(i) /\ Blank(args[i]))
    => (pc[i] = "failed" /\ calls[i] = <<>>)

(***************************************************************************)
(* Two invocations whose steps interleave in any order.                    *)
(***************************************************************************)
InitPair ==
  /\ apiKey \in ApiKeys
  /\ active = {1, 2}
  /\ scope = "pair"
  /\ aistudio = TRUE
  /\ ServiceInit
  /\ UIInit

SpecPair == InitPair /\ [][Next]_vars

\* everything invocation j owns
Locals(j) ==
  <<fn[j], args[j], pc[j], calls[j], articleTextResponse[j], paragraphsData[j],
    pIndex[j], imageResponses[j], articleWithImages[j], returned[j], error[j]>>

\* the image reference an invocation running alone derives from a response
ReferenceAlone(o) ==
  IF o.kind = "throw"
  THEN [scheme |-> "https", href |-> "https://picsum.photos/400/400?grayscale"]
  ELSE IF HasPayload(o) THEN OwnDataReference(o)
  ELSE [scheme |-> "https", href |-> "https://picsum.photos/400/400?blur=2"]

\* the entries an invocation running alone has after the text response raw
\* and the image responses
EntriesAlone(raw, responses) ==
  LET texts == ParagraphTexts(raw) IN
  [k \in 1..Len(responses) |->
     [text |-> texts[k], imageUrl |-> ReferenceAlone(responses[k])]]

(***************************************************************************)
(* C12.  Two generateKidArticle invocations whose remote calls interleave  *)
(* in any order do not affect each other: a step of one leaves everything  *)
(* the other owns as it was, and the entries of each, while it runs and    *)
(* in its result, are exactly its own paragraphs with the references       *)
(* derived from its own image responses, as if it had run alone.           *)
(***************************************************************************)
C12_Isolated ==
  /\ [](\A i \in active :
          (IsArticle(i) /\ pc[i] \in {"awaitImage", "returned"})
          => /\ articleWithImages[i]
                  = EntriesAlone(RawText(i), imageResponses[i])
             /\ pc[i] = "returned"
                  => /\ returned[i].v = articleWithImages[i]
                     /\ Len(returned[i].v) = ParagraphCount(RawText(i)))
  /\ [][\E i \in active : \A j \in active \ {i} : Locals(j)' = Locals(j)]_vars

\* both invocations are at their last image request at once, on different
\* text responses, the first image request of one having thrown and that
\* of the other having resolved with an image
C12_Witness ==
  /\ active = {1, 2}
  /\ IsArticle(1) /\ IsArticle(2)
  /\ pc[1] = "awaitImage" /\ pc[2] = "awaitImage"
  /\ pIndex[1] = MinParagraphs /\ pIndex[2] = MinParagraphs
  /\ RawText(1) # RawText(2)
  /\ imageResponses[1][1].kind = "throw"
  /\ HasPayload(imageResponses[2][1])

(***************************************************************************)
(* The App component (src/App.tsx:21-153) with the article form            *)
(* (src/unnamed/part_000) and the generation half of the image studio      *)
(* (src/components/ImageStudio.tsx:12-80).  An invocation slot is taken    *)
(* by the handler that calls the service and is free again once the        *)
(* handler has finished.                                                   *)
(***************************************************************************)
Views == {"ARTICLES", "IMAGE_STUDIO", "QUICK_CHAT"}

\* a string shown to the user: a fixed text, followed by the message of
\* the error caught, if any
Shown(text, cause) == [t |-> "shown", text |-> text, cause |-> cause]

\* err.message.includes("Requested entity was not found."): the messages of
\* the service are a fixed text followed by the message of the error caught
IncludesNotFound(e) ==
  "Requested entity was not found." \in {e.message, e.detail}

\* the continuation of a handler is a microtask: it runs before the next
\* event or response is handled
NoMicrotask ==
  \A i \in Invs : handler[i] # "none" => pc[i] \notin {"returned", "failed"}

\* the invocation a handler starts: the first free slot
FreeSlot(i) ==
  /\ handler[i] = "none" /\ pc[i] = "idle"
  /\ \A j \in Invs : (handler[j] = "none" /\ pc[j] = "idle") => i <= j

\* the promise awaited was consumed: the slot is free again
Release(i) ==
  /\ handler' = [handler EXCEPT ![i] = "none"]
  /\ fn' = [fn EXCEPT ![i] = "none"]
  /\ args' = [args EXCEPT ![i] = <<>>]
  /\ pc' = [pc EXCEPT ![i] = "idle"]
  /\ calls' = [calls EXCEPT ![i] = <<>>]
  /\ articleTextResponse' = [articleTextResponse EXCEPT ![i] = PendingText]
  /\ paragraphsData' = [paragraphsData EXCEPT ![i] = <<>>]
  /\ pIndex' = [pIndex EXCEPT ![i] = 0]
  /\ imageResponses' = [imageResponses EXCEPT ![i] = <<>>]
  /\ articleWithImages' = [articleWithImages EXCEPT ![i] = <<>>]
  /\ returned' = [returned EXCEPT ![i] = NoValue]
  /\ error' = [error EXCEPT ![i] = NoError]
  /\ UNCHANGED <<apiKey, active, scope>>

\* checkApiKeyStatus resolves, src/App.tsx:33-41 (window.aistudio present)
CheckApiKeyStatus ==
  /\ keyCheck = "pending"
  /\ keyCheck' = "done"
  /\ \E hasKey \in BOOLEAN : apiKeySelected' = hasKey
  /\ UNCHANGED <<topic, article, loading, appError, currentView, aistudio,
                 selecting, handler>>
  /\ UNCHANGED <<serviceVars, studioVars>>

\* onChange of the topic input, src/unnamed/part_000:28-31
SetTopic(t) ==
  /\ NoMicrotask
  /\ currentView = "ARTICLES"
  /\ ~loading
  /\ t # topic
  /\ topic' = t
  /\ UNCHANGED <<article, loading, appError, currentView, apiKeySelected,
                 aistudio, keyCheck, selecting, handler>>
  /\ UNCHANGED <<serviceVars, studioVars>>

\* Faulty variant of GenerateDisabled: the button is never disabled.
GenerateEnabledAlways == FALSE

\* disabled={loading} of the generate button, src/unnamed/part_000:38
GenerateDisabled == loading

\* Faulty variant of ClearedArticle: setArticle(null) is left out.
StaleArticle == article

\* setArticle(null), src/App.tsx:74
ClearedArticle == JNull

\* Faulty variant of ClearedError: setError(null) is left out.
StaleError == appError

\* setError(null), src/App.tsx:73
ClearedError == JNull

\* handleGenerateArticle up to its await, src/App.tsx:67-76
HandleGenerateArticle ==
  /\ NoMicrotask
  /\ currentView = "ARTICLES"
  /\ ~GenerateDisabled
  /\ IF Trim(topic) = <<>>
     THEN /\ appError' =
               Shown("Please enter a current event topic to generate an article.",
                     NoError)
          /\ UNCHANGED <<article, loading, handler, serviceVars>>
     ELSE \E i \in Invs :
            /\ FreeSlot(i)
            /\ loading' = TRUE
            /\ appError' = ClearedError
            /\ article' = ClearedArticle
            /\ StartArticle(i, topic)
            /\ handler' = [handler EXCEPT ![i] = "article"]
  /\ UNCHANGED <<topic, currentView, apiKeySelected, aistudio, keyCheck,
                 selecting, studioVars>>

\* handleGenerateArticle after its await, src/App.tsx:77-88
ArticleResumes(i) ==
  /\ handler[i] = "article"
  /\ pc[i] \in {"returned", "failed"}
  /\ IF pc[i] = "returned"
     THEN /\ article' = returned[i]
          /\ UNCHANGED <<appError, apiKeySelected>>
     ELSE /\ appError' = Shown("Failed to generate article:", error[i])
          /\ apiKeySelected' =
               IF IncludesNotFound(error[i]) THEN FALSE ELSE apiKeySelected
          /\ UNCHANGED article
  /\ loading' = FALSE
  /\ Release(i)
  /\ UNCHANGED <<topic, currentView, aistudio, keyCheck, selecting, studioVars>>

\* onClick of a navigation button, src/App.tsx:101-121; the ImageStudio
\* left is unmounted and its state is lost, the handlers it started go on
SetCurrentView(v) ==
  /\ NoMicrotask
  /\ v # currentView
  /\ currentView' = v
  /\ IF currentView = "IMAGE_STUDIO"
     THEN /\ generatePrompt' = <<>>
          /\ generatedImage' = JNull
          /\ generateLoading' = FALSE
          /\ generateError' = JNull
          /\ handler' = [i \in Invs |->
                           IF handler[i] = "image" THEN "unmounted"
                           ELSE handler[i]]
     ELSE UNCHANGED <<studioVars, handler>>
  /\ UNCHANGED <<topic, article, loading, appError, apiKeySelected, aistudio,
                 keyCheck, selecting, serviceVars>>

\* onChange of the prompt input, src/components/ImageStudio.tsx:141-144
SetGeneratePrompt(p) ==
  /\ NoMicrotask
  /\ currentView = "IMAGE_STUDIO"
  /\ ~generateLoading
  /\ p # generatePrompt
  /\ generatePrompt' = p
  /\ UNCHANGED <<generatedImage, generateLoading, generateError>>
  /\ UNCHANGED <<serviceVars, appVars>>

\* Faulty variant of KeyNotSelected: the key check is left out.
KeyCheckSkipped == FALSE

\* if (!apiKeySelected), src/components/ImageStudio.tsx:37
KeyNotSelected == ~apiKeySelected

\* what generateError shows: a text, the message of the error caught and
\* whether a button calling onSelectApiKey is part of it
StudioError(text, cause, button) ==
  [t |-> "shown", text |-> text, cause |-> cause, selectButton |-> button]

\* handleGenerateImage up to its await, src/components/ImageStudio.tsx:32-56
HandleGenerateImage ==
  /\ NoMicrotask
  /\ currentView = "IMAGE_STUDIO"
  /\ ~generateLoading
  /\ IF Trim(generatePrompt) = <<>>
     THEN /\ generateError' =
               StudioError("Please enter a prompt to generate an image.",
                           NoError, FALSE)
          /\ UNCHANGED <<generatedImage, generateLoading, handler, serviceVars>>
     ELSE IF KeyNotSelected
     THEN /\ generateError' =
               StudioError("Image generation with this model requires a paid API key.",
                           NoError, TRUE)
          /\ UNCHANGED <<generatedImage, generateLoading, handler, serviceVars>>
     ELSE \E i \in Invs :
            /\ FreeSlot(i)
            /\ generateLoading' = TRUE
            /\ generateError' = JNull
            /\ generatedImage' = JNull
            /\ StartSingle(i, "generateImage", generatePrompt)
            /\ handler' = [handler EXCEPT ![i] = "image"]
  /\ UNCHANGED <<generatePrompt, topic, article, loading, appError, currentView,
                 apiKeySelected, aistudio, keyCheck, selecting>>

\* handleGenerateImage after its await, src/components/ImageStudio.tsx:57-79;
\* the setters of an unmounted ImageStudio change nothing, onApiKeyError
\* is the setter of App
ImageResumes(i) ==
  /\ handler[i] \in {"image", "unmounted"}
  /\ pc[i] \in {"returned", "failed"}
  /\ IF handler[i] = "unmounted"
     THEN UNCHANGED studioVars
     ELSE /\ generateLoading' = FALSE
          /\ UNCHANGED generatePrompt
          /\ IF pc[i] = "returned"
             THEN /\ generatedImage' = [url |-> returned[i].v, prompt |-> args[i]]
                  /\ UNCHANGED generateError
             ELSE /\ generateError' =
                       StudioError("Failed to generate image:", error[i],
                                   IncludesNotFound(error[i]))
                  /\ UNCHANGED generatedImage
  /\ apiKeySelected' =
       IF pc[i] = "failed" /\ IncludesNotFound(error[i]) THEN FALSE
       ELSE apiKeySelected
  /\ Release(i)
  /\ UNCHANGED <<topic, article, loading, appError, currentView, aistudio,
                 keyCheck, selecting>>

\* handleSelectApiKey up to its await, src/App.tsx:51-54, called from a
\* button of the error shown (ImageStudio.tsx:41 and 73); without
\* window.aistudio it only alerts
HandleSelectApiKey ==
  /\ NoMicrotask
  /\ currentView = "IMAGE_STUDIO"
  /\ generateError # JNull
  /\ generateError.selectButton
  /\ aistudio
  /\ ~selecting
  /\ selecting' = TRUE
  /\ UNCHANGED <<topic, article, loading, appError, currentView, apiKeySelected,
                 aistudio, keyCheck, handler>>
  /\ UNCHANGED <<serviceVars, studioVars>>

\* openSelectKey() settles, src/App.tsx:54-61
SelectKeySettles ==
  /\ selecting
  /\ selecting' = FALSE
  /\ \E resolved \in BOOLEAN : apiKeySelected' = resolved
  /\ UNCHANGED <<topic, article, loading, appError, currentView, aistudio,
                 keyCheck, handler>>
  /\ UNCHANGED <<serviceVars, studioVars>>

\* App is mounted; without window.aistudio the mount effect has set
\* apiKeySelected from process.env.API_KEY, src/App.tsx:42-46
InitApp ==
  /\ apiKey \in {"empty", "set"}
  /\ active = Invs
  /\ scope = "ui"
  /\ aistudio \in BOOLEAN
  /\ ServiceInit
  /\ topic = <<>>
  /\ article = JNull
  /\ loading = FALSE
  /\ appError = JNull
  /\ currentView = "ARTICLES"
  /\ apiKeySelected = IF aistudio THEN FALSE ELSE ~KeyMissing(apiKey)
  /\ keyCheck = IF aistudio THEN "pending" ELSE "done"
  /\ selecting = FALSE
  /\ handler = [i \in Invs |-> "none"]
  /\ generatePrompt = <<>>
  /\ generatedImage = JNull
  /\ generateLoading = FALSE
  /\ generateError = JNull

NextApp ==
  \/ CheckApiKeyStatus
  \/ \E t \in Topics : SetTopic(t)
  \/ HandleGenerateArticle
  \/ \E i \in Invs : NoMicrotask /\ handler[i] # "none" /\ TextSettles(i)
  \/ \E i \in Invs : NoMicrotask /\ handler[i] # "none" /\ ImageSettles(i)
  \/ \E i \in Invs : ArticleResumes(i)
  \/ \E v \in Views : SetCurrentView(v)
  \/ \E p \in Topics : SetGeneratePrompt(p)
  \/ HandleGenerateImage
  \/ \E i \in Invs : NoMicrotask /\ handler[i] # "none" /\ SingleImageSettles(i)
  \/ \E i \in Invs : ImageResumes(i)
  \/ HandleSelectApiKey
  \/ SelectKeySettles

SpecApp == InitApp /\ [][NextApp]_vars

(***************************************************************************)
(* Vocabulary of the UI properties.                                        *)
(***************************************************************************)
\* a handleGenerateArticle run is awaiting generateKidArticle, or is about
\* to resume after it settled
GenerationInFlight == {i \in Invs : handler[i] = "article"}

\* this step starts a run that passed the topic check, on invocation i
RunStarts(i) == handler[i] = "none" /\ handler'[i] = "article"

\* this step ends the run awaiting invocation i
RunEnds(i) == handler[i] = "article" /\ handler'[i] = "none"

(***************************************************************************)
(* C16.  Every handleGenerateArticle run that passes the topic check sets  *)
(* loading and clears article and error in the step that issues the        *)
(* request (the topic passed is the topic typed, not blank); they stay so  *)
(* while the request is awaited; the run ends only once generateKidArticle *)
(* has settled, with loading false and exactly one of the two set: on      *)
(* success article is the list returned and error is null, on failure      *)
(* error is a message carrying the error thrown and article is null.       *)
(***************************************************************************)
C16_RunOutcome ==
  /\ [](\A i \in Invs :
          handler[i] = "article"
          => (loading /\ article = JNull /\ appError = JNull))
  /\ [][\A i \in Invs :
          /\ RunStarts(i)
               => /\ loading' /\ article' = JNull /\ appError' = JNull
                  /\ fn'[i] = "generateKidArticle"
                  /\ args'[i] = topic /\ ~Blank(topic)
          /\ RunEnds(i)
               => /\ pc[i] \in {"returned", "failed"}
                  /\ ~loading'
                  /\ pc[i] = "returned"
                       => /\ article' # JNull
                          /\ article'.v = returned[i].v
                          /\ Len(article'.v) >= 5
                          /\ appError' = JNull
                  /\ pc[i] = "failed"
                       => /\ appError' # JNull
                          /\ appError'.cause = error[i]
                          /\ article' = JNull]_vars

\* a run has ended in a failure: its message is shown without article
C16_Witness ==
  /\ ~loading
  /\ GenerationInFlight = {}
  /\ appError # JNull
  /\ appError.text = "Failed to generate article:"
  /\ appError.cause.message = "Could not generate article text. Please try a different topic."
  /\ article = JNull

(***************************************************************************)
(* C17.  In every reachable state of the App component, article and error  *)
(* are not both non-null.  (The code does not keep this: the topic check   *)
(* of handleGenerateArticle sets error and returns before the previous     *)
(* article is cleared.)                                                    *)
(***************************************************************************)
C17_NeverBoth == ~(article # JNull /\ appError # JNull)

(***************************************************************************)
(* C17, as the code has it.  article and error are both non-null only      *)
(* when error is the message of the topic check, set by a generate         *)
(* trigger on a blank topic while the previous article is displayed, and   *)
(* no generation is running; the message of a failed generation is never   *)
(* displayed together with an article.                                     *)
(***************************************************************************)
C17_OnlyTopicMessageBesideArticle ==
  (article # JNull /\ appError # JNull)
  => /\ appError.text =
          "Please enter a current event topic to generate an article."
     /\ appError.cause = NoError
     /\ ~loading
     /\ GenerationInFlight = {}

\* the message of the topic check is displayed under a generated article
C17_Witness ==
  /\ article # JNull
  /\ appError # JNull
  /\ currentView = "ARTICLES"

(***************************************************************************)
(* C18.  At most one article generation is in flight at any time in the    *)
(* UI: loading is true from the start of a generation until its handler    *)
(* has finished, the generate trigger is disabled whenever loading is      *)
(* true, and a generateKidArticle call starts only while loading is false  *)
(* and no other is in flight, whatever view is displayed.                  *)
(***************************************************************************)
C18_OneInFlight ==
  /\ [](/\ Cardinality({i \in Invs : IsArticle(i)}) <= 1
        /\ \A i \in Invs : IsArticle(i) <=> i \in GenerationInFlight
        /\ GenerationInFlight # {} => loading)
  /\ [][\A i \in Invs :
          (~IsArticle(i) /\ IsArticle(i)')
          => /\ ~loading
             /\ GenerationInFlight = {}
             /\ currentView = "ARTICLES"]_vars

\* a generation is in flight while the image studio is displayed
C18_Witness ==
  \E i \in Invs :
    /\ i \in GenerationInFlight
    /\ pc[i] = "awaitImage"
    /\ currentView = "IMAGE_STUDIO"
    /\ loading

(***************************************************************************)
(* C19.  In the image studio, generateImage is called only while           *)
(* apiKeySelected is true and the prompt is not blank, with the prompt     *)
(* typed; a trigger that is refused shows an error and issues no request;  *)
(* and when a generation has failed with a message containing 'Requested   *)
(* entity was not found.', apiKeySelected is false once its handler has    *)
(* finished, so that the next trigger is refused until a key is selected.  *)
(***************************************************************************)
C19_StudioGuard ==
  [][/\ \A i \in Invs :
          (fn[i] # "generateImage" /\ fn'[i] = "generateImage")
          => /\ apiKeySelected
             /\ ~Blank(generatePrompt)
             /\ args'[i] = generatePrompt
             /\ currentView = "IMAGE_STUDIO"
     /\ (/\ generateError' # generateError
         /\ generateError' # JNull
         /\ generateError'.cause = NoError)
          => /\ Blank(generatePrompt) \/ ~apiKeySelected
             /\ calls' = calls /\ fn' = fn
     /\ \A i \in Invs :
          (/\ fn[i] = "generateImage" /\ fn'[i] = "none"
           /\ pc[i] = "failed"
           /\ error[i].detail = "Requested entity was not found.")
          => ~apiKeySelected']_vars

\* a generation failed with that message: the error offers to re-select
\* the key and apiKeySelected is false
C19_Witness ==
  /\ currentView = "IMAGE_STUDIO"
  /\ generateError # JNull
  /\ generateError.cause.detail = "Requested entity was not found."
  /\ generateError.selectButton
  /\ ~apiKeySelected
  /\ ~generateLoading

=============================================================================
